---- MODULE Spec2Model ----
(***************************************************************************)
(* Model of the multi-agent workflow (workflow.py), its agents' one-shot   *)
(* operations (agents.py) and the message history (messages.py).           *)
(*                                                                         *)
(* Text is a sequence of one-character strings, so that slicing, length    *)
(* and substring tests are computed the way Python computes them.          *)
(***************************************************************************)
EXTENDS Integers, Sequences, FiniteSets, TLC

VARIABLES
    \* ---- MessageHistory (messages.py) ----
    messages,        \* MessageHistory.messages
    hist_op,         \* the public operation most recently called on it
    hist_arg,        \* that call's argument (a message, n, or None)
    hist_ret,        \* that call's return value
    seen_context,    \* outputs of the get_conversation_context calls made since
                     \* the latest add_message / clear (the last two of them)
    \* ---- MultiAgentWorkflow (workflow.py) ----
    pc,              \* position of run()
    query,           \* run() argument
    max_iterations,  \* run() argument
    retrieved_info,  \* local of run()
    synthesized_response, \* local of run()
    current_response,     \* local of run()
    critique,        \* local of run(): the latest CritiqueResult
    iterations,      \* local of run()
    interaction_log, \* self.interaction_log, the one list object of the orchestrator
    returned,        \* the result dicts run() has returned, as their callers hold them
    returned_snapshot, \* the fields of each of them as they read when it was returned
    calls,           \* agent invocations made by the current run(), in order
    log_at_start,    \* len(self.interaction_log) when the current run() started
    runs,            \* number of run() invocations so far
    \* ---- BaseAgent.process (agents.py) ----
    memory,          \* self.memory.messages of the agent
    proc_pc,         \* position of process()
    proc_in,         \* process() argument: the incoming message
    proc_prompt,     \* the prompt handed to the text-generation client
    proc_ret,        \* <<the message process() returned>>, <<>> while it has not
    mem_before,      \* self.memory.messages when the current process() was entered
    proc_calls,      \* number of process() invocations so far
    proc_llm,        \* the client invocation of the current process(): "none",
                     \* "pending", "answered" or "failed"
    \* ---- CriticAgent.critique on a given model output ----
    crit_text,       \* the model output
    crit_out         \* <<the dict critique returned for it>>, <<>> before the call

hvars == <<messages, hist_op, hist_arg, hist_ret, seen_context>>
wvars == <<pc, query, max_iterations, retrieved_info, synthesized_response,
           current_response, critique, iterations, interaction_log, returned,
           returned_snapshot, calls, log_at_start, runs>>
avars == <<memory, proc_pc, proc_in, proc_prompt, proc_ret, mem_before,
           proc_calls, proc_llm>>
cvars == <<crit_text, crit_out>>
vars == <<messages, hist_op, hist_arg, hist_ret, seen_context,
          pc, query, max_iterations, retrieved_info, synthesized_response,
          current_response, critique, iterations, interaction_log, returned,
          returned_snapshot, calls, log_at_start, runs,
          memory, proc_pc, proc_in, proc_prompt, proc_ret, mem_before,
          proc_calls, proc_llm, crit_text, crit_out>>

None == "None"

\* ---------------------------------------------------------------- bounds
MaxMessages == 11      \* longest history explored
MaxRecentN == 3        \* largest n passed to get_recent_messages
MaxIterBound == 3      \* largest max_iterations passed to run
MaxRuns == 2           \* run() invocations on one orchestrator

\* ------------------------------------------------------ program constants
ContextWindow == 10    \* messages.py:54  self.messages[-10:]
PreviewLen == 200      \* workflow.py:30, 38  [:200]
ScoreThreshold == 7    \* workflow.py:53  critique["score"] < 7
ScoreWindow == 50      \* agents.py:166  critique_text[:50]

\* ------------------------------------------------------- Python helpers
Min(a, b) == IF a < b THEN a ELSE b
Max(a, b) == IF a > b THEN a ELSE b

\* seq[start:]  (a negative start counts from the end, out of range clamps)
PySliceFrom(seq, start) ==
    LET n == Len(seq)
        s == IF start < 0 THEN Max(n + start, 0) ELSE Min(start, n)
    IN  SubSeq(seq, s + 1, n)

\* seq[:stop]
PySliceTo(seq, stop) ==
    LET n == Len(seq)
        e == IF stop < 0 THEN Max(n + stop, 0) ELSE Min(stop, n)
    IN  SubSeq(seq, 1, e)

\* tok in text
Contains(tok, text) ==
    \E i \in 1..(Len(text) - Len(tok) + 1) :
        SubSeq(text, i, i + Len(tok) - 1) = tok

RECURSIVE Concat(_)
\* "".join(parts)
Concat(parts) ==
    IF parts = <<>> THEN <<>> ELSE Head(parts) \o Concat(Tail(parts))

\* ------------------------------------------------------------ messages.py
\* AgentMessage.to_prompt_context: f"[{sender} -> {recipient}]: {content}"
to_prompt_context(msg) ==
    <<"[">> \o msg.sender \o <<" ", "-", ">", " ">> \o msg.recipient
            \o <<"]", ":", " ">> \o msg.content

NoPreviousConversation ==
    <<"N","o"," ","p","r","e","v","i","o","u","s"," ",
      "c","o","n","v","e","r","s","a","t","i","o","n",".">>

ContextHeader ==
    <<"P","r","e","v","i","o","u","s"," ",
      "c","o","n","v","e","r","s","a","t","i","o","n",":","\n">>

\* MessageHistory.add_message
add_message_prepend(msgs, m) == <<m>> \o msgs
add_message(msgs, m) == Append(msgs, m)

\* MessageHistory.get_recent_messages
get_recent_messages(msgs, n) ==
    IF msgs # <<>> THEN PySliceFrom(msgs, 0 - n) ELSE <<>>

\* MessageHistory.get_conversation_context: the returned text and the
\* message list the call leaves behind
get_conversation_context_window9(msgs) ==
    [ret |-> IF msgs = <<>> THEN NoPreviousConversation
             ELSE LET win == PySliceFrom(msgs, 0 - (ContextWindow - 1))
                  IN  ContextHeader \o
                      Concat([i \in 1..Len(win) |->
                                 to_prompt_context(win[i]) \o <<"\n">>]),
     messages |-> msgs]
get_conversation_context_pruning(msgs) ==
    [ret |-> IF msgs = <<>> THEN NoPreviousConversation
             ELSE LET win == PySliceFrom(msgs, 0 - ContextWindow)
                  IN  ContextHeader \o
                      Concat([i \in 1..Len(win) |->
                                 to_prompt_context(win[i]) \o <<"\n">>]),
     messages |-> PySliceFrom(msgs, 0 - ContextWindow)]
get_conversation_context(msgs) ==
    [ret |-> IF msgs = <<>> THEN NoPreviousConversation
             ELSE LET win == PySliceFrom(msgs, 0 - ContextWindow)
                  IN  ContextHeader \o
                      Concat([i \in 1..Len(win) |->
                                 to_prompt_context(win[i]) \o <<"\n">>]),
     messages |-> msgs]

\* MessageHistory.clear
clear(msgs) == <<>>

\* the messages the callers append (tests/test_basic.py:34-35); a dict is
\* the set of its (key, value) pairs, the timestamp is left out
Msg1 == [sender |-> <<"a","1">>, recipient |-> <<"a","2">>,
         message_type |-> "query",
         content |-> <<"Q","u","e","r","y"," ","1">>,
         context |-> {}, metadata |-> {}]
Msg2 == [sender |-> <<"a","2">>, recipient |-> <<"a","1">>,
         message_type |-> "response",
         content |-> <<"R","e","s","p","o","n","s","e"," ","1">>,
         context |-> {<<"topic", "t">>}, metadata |-> {}]
InputMessages == {Msg1, Msg2}

HistInit ==
    /\ messages = <<>>
    /\ hist_op = "__init__"
    /\ hist_arg = None
    /\ hist_ret = None
    /\ seen_context = <<>>

AddMessage ==
    \E m \in InputMessages :
        /\ Len(messages) < MaxMessages
        /\ messages' = add_message(messages, m)
        /\ hist_op' = "add_message"
        /\ hist_arg' = m
        /\ hist_ret' = None
        /\ seen_context' = <<>>
        /\ UNCHANGED <<wvars, avars, cvars>>

GetRecentMessages ==
    \E n \in 0..MaxRecentN :
        /\ hist_op' = "get_recent_messages"
        /\ hist_arg' = n
        /\ hist_ret' = get_recent_messages(messages, n)
        /\ UNCHANGED <<messages, seen_context, wvars, avars, cvars>>

GetConversationContext ==
    LET r == get_conversation_context(messages)
    IN  /\ hist_op' = "get_conversation_context"
        /\ hist_arg' = None
        /\ hist_ret' = r.ret
        /\ messages' = r.messages
        /\ seen_context' = PySliceFrom(Append(seen_context, r.ret), 0 - 2)
        /\ UNCHANGED <<wvars, avars, cvars>>

Clear ==
    /\ messages' = clear(messages)
    /\ hist_op' = "clear"
    /\ hist_arg' = None
    /\ hist_ret' = None
    /\ seen_context' = <<>>
    /\ UNCHANGED <<wvars, avars, cvars>>

HistNext ==
    \/ AddMessage
    \/ GetRecentMessages
    \/ GetConversationContext
    \/ Clear

\* -------------------------------------------------------------- agents.py
\* what the text-generation client may answer to each agent
LongAnswer == [i \in 1..(PreviewLen + 1) |-> "b"]
RetrieverOutputs == {<<"i","n","f","o">>}
SynthesizerOutputs == {<<"a">>, LongAnswer}
CriticOutputs == {<<"S","c","o","r","e",":"," ","5">>,
                  <<"S","c","o","r","e",":"," ","9">>,
                  <<"G","o","o","d">>}

\* CriticAgent.critique, from the model's answer on: the score extraction
\* and the returned dict
CriticAgent_critique_nowindow(critique_text) ==
    LET head == critique_text
        score == IF Contains(<<"1","0">>, head) THEN 10
                 ELSE IF Contains(<<"9">>, head) THEN 9
                 ELSE IF Contains(<<"8">>, head) THEN 8
                 ELSE IF Contains(<<"6">>, head) THEN 6
                 ELSE IF Contains(<<"5">>, head) THEN 5
                 ELSE 7
    IN  [score |-> score, critique |-> critique_text,
         issues |-> <<>>, improvements |-> <<>>]
CriticAgent_critique(critique_text) ==
    LET head == PySliceTo(critique_text, ScoreWindow)
        score == IF Contains(<<"1","0">>, head) THEN 10
                 ELSE IF Contains(<<"9">>, head) THEN 9
                 ELSE IF Contains(<<"8">>, head) THEN 8
                 ELSE IF Contains(<<"6">>, head) THEN 6
                 ELSE IF Contains(<<"5">>, head) THEN 5
                 ELSE 7
    IN  [score |-> score, critique |-> critique_text,
         issues |-> <<>>, improvements |-> <<>>]

\* ---- CriticAgent.critique on model outputs typed character by character
MaxTextLen == 3        \* characters of a model output besides its filler

\* the characters a model output is made of, and its filler
TextChars == {"1", "0", "9", "8", "7", "6", "5"}
Filler == [i \in 1..(ScoreWindow - 2) |-> "x"]

\* the model output gains a character
TypeChar ==
    \E ch \in TextChars :
        /\ Cardinality({i \in DOMAIN crit_text : crit_text[i] # "x"}) < MaxTextLen
        /\ crit_text' = Append(crit_text, ch)
        /\ crit_out' = <<>>
        /\ UNCHANGED <<hvars, wvars, avars>>

\* the model output gains a stretch of filler that reaches up to the end of
\* the window the score is read from
TypeFiller ==
    /\ \A i \in DOMAIN crit_text : crit_text[i] # "x"
    /\ crit_text' = crit_text \o Filler
    /\ crit_out' = <<>>
    /\ UNCHANGED <<hvars, wvars, avars>>

\* critique() is called and the model answers crit_text
CritiqueText ==
    /\ crit_out = <<>>
    /\ crit_out' = <<CriticAgent_critique(crit_text)>>
    /\ UNCHANGED <<hvars, wvars, avars, crit_text>>

CriticNext ==
    \/ TypeChar
    \/ TypeFiller
    \/ CritiqueText

\* ---- BaseAgent.process
MaxProcessCalls == 4   \* process() invocations on one agent

\* the agent under test (tests/test_basic.py:55) and its default model
AgentId == <<"t","e","s","t","_","a","g","e","n","t">>
ModelName == <<"g","p","t","-","3",".","5","-","t","u","r","b","o">>
ProcessOutputs == {<<"o","k">>, <<"n","o">>}

\* f"{context}\n\nCurrent message: {message.content}\n\nYour response:"
BuildPrompt(context, message) ==
    context
      \o <<"\n","\n","C","u","r","r","e","n","t"," ",
           "m","e","s","s","a","g","e",":"," ">>
      \o message.content
      \o <<"\n","\n","Y","o","u","r"," ","r","e","s","p","o","n","s","e",":">>

\* the response_msg process() builds from the model's answer
ResponseMessage_to_self(message, content) ==
    [sender |-> AgentId,
     recipient |-> AgentId,
     message_type |-> "response",
     content |-> content,
     context |-> message.context,
     metadata |-> {<<"model", ModelName>>}]
ResponseMessage(message, content) ==
    [sender |-> AgentId,
     recipient |-> message.sender,
     message_type |-> "response",
     content |-> content,
     context |-> message.context,
     metadata |-> {<<"model", ModelName>>}]

AInit ==
    /\ memory = <<>>
    /\ proc_pc = "idle"
    /\ proc_in = None
    /\ proc_prompt = None
    /\ proc_ret = <<>>
    /\ mem_before = <<>>
    /\ proc_calls = 0
    /\ proc_llm = "none"

\* process(message) is entered: the incoming message is stored, the prompt
\* is built and the text-generation client is invoked
ProcessBegin ==
    \E m \in InputMessages :
        LET stored == add_message(memory, m)
        IN  /\ proc_pc \in {"idle", "returned", "raised"}
            /\ proc_calls < MaxProcessCalls
            /\ proc_calls' = proc_calls + 1
            /\ mem_before' = memory
            /\ proc_in' = m
            /\ memory' = stored
            /\ proc_prompt' = BuildPrompt(get_conversation_context(stored).ret, m)
            /\ proc_ret' = <<>>
            /\ proc_pc' = "invoke"
            /\ proc_llm' = "pending"
            /\ UNCHANGED <<hvars, wvars, cvars>>

\* the client answers: the response is built, stored and returned
ProcessAnswers ==
    \E out \in ProcessOutputs :
        LET response_msg == ResponseMessage(proc_in, out)
        IN  /\ proc_pc = "invoke"
            /\ memory' = add_message(memory, response_msg)
            /\ proc_ret' = <<response_msg>>
            /\ proc_pc' = "returned"
            /\ proc_llm' = "answered"
            /\ UNCHANGED <<hvars, wvars, cvars, proc_in, proc_prompt,
                           mem_before, proc_calls>>

\* the client raises; process() has no handler
\* (ProcessFabricates: a handler that answers with an error text instead)
ProcessFabricates ==
    LET response_msg == ResponseMessage(proc_in, <<"e","r","r","o","r">>)
    IN  /\ proc_pc = "invoke"
        /\ memory' = add_message(memory, response_msg)
        /\ proc_ret' = <<response_msg>>
        /\ proc_pc' = "returned"
        /\ proc_llm' = "failed"
        /\ UNCHANGED <<hvars, wvars, cvars, proc_in, proc_prompt,
                       mem_before, proc_calls>>
ProcessRaises ==
    /\ proc_pc = "invoke"
    /\ proc_pc' = "raised"
    /\ proc_llm' = "failed"
    /\ UNCHANGED <<hvars, wvars, cvars, memory, proc_in, proc_prompt,
                   proc_ret, mem_before, proc_calls>>

AgentNext ==
    \/ ProcessBegin
    \/ ProcessAnswers
    \/ ProcessRaises

\* ------------------------------------------------------------ workflow.py
\* text[:200] + "..." if len(text) > 200 else text
Preview(text) ==
    IF Len(text) > PreviewLen
    THEN PySliceTo(text, PreviewLen) \o <<".", ".", ".">>
    ELSE text

\* the loop test of run()
WhileCond_inclusive(crit, its, maxit) ==
    crit.score < ScoreThreshold /\ its <= maxit
WhileCond_ignores_score(crit, its, maxit) ==
    its < maxit
WhileCond_threshold_inclusive(crit, its, maxit) ==
    crit.score <= ScoreThreshold /\ its < maxit
WhileCond(crit, its, maxit) ==
    crit.score < ScoreThreshold /\ its < maxit

\* f"{synthesized_response}\n\nCritique: {critique['critique']}"
RefinementPrompt(first_response, latest_response, crit) ==
    first_response
        \o <<"\n","\n","C","r","i","t","i","q","u","e",":"," ">>
        \o crit.critique

\* the response the loop body hands to self.critic.critique
CritiqueTarget_first(first_response, latest_response) == first_response
CritiqueTarget(first_response, latest_response) == latest_response

\* the response the result dict reports
FinalResponse_first(first_response, latest_response) == first_response
FinalResponse(first_response, latest_response) == latest_response

\* the one list object self.interaction_log names; a result dict holds this
\* reference, not a copy
LogRef == "self.interaction_log"

\* the result dict of run() (time_taken, a wall-clock reading, is left out)
CompileResult(q, first_response, latest_response, crit, its) ==
    [query |-> q,
     final_response |-> FinalResponse(first_response, latest_response),
     quality_score |-> crit.score,
     critique |-> crit.critique,
     iterations |-> its,
     interaction_log |-> LogRef]

\* a result dict as its holder reads it: the log field is whatever the list
\* it refers to holds now
ResultView(r) == [r EXCEPT !.interaction_log = interaction_log]

\* one agent invocation: the agent, its second argument, the text the model
\* answered (raw) and what the agent returned (ok), or that it raised (~ok)
Call(agent, arg, out) ==
    [agent |-> agent, arg |-> arg, out |-> out, raw |-> out, ok |-> TRUE]
CriticCall(arg, crit, raw) ==
    [agent |-> "critic", arg |-> arg, out |-> crit, raw |-> raw, ok |-> TRUE]
Raised(agent, arg) ==
    [agent |-> agent, arg |-> arg, out |-> None, raw |-> None, ok |-> FALSE]

WInit ==
    /\ pc = "idle"
    /\ query = None
    /\ max_iterations = None
    /\ retrieved_info = None
    /\ synthesized_response = None
    /\ current_response = None
    /\ critique = None
    /\ iterations = None
    /\ interaction_log = <<>>
    /\ returned = <<>>
    /\ returned_snapshot = <<>>
    /\ calls = <<>>
    /\ log_at_start = 0
    /\ runs = 0

Queries == {<<"q">>}

\* run(query, max_iterations) is entered
Run ==
    \E q \in Queries, m \in 0..MaxIterBound :
        /\ pc \in {"idle", "returned", "raised"}
        /\ runs < MaxRuns
        /\ runs' = runs + 1
        /\ pc' = "search"
        /\ query' = q
        /\ max_iterations' = m
        /\ retrieved_info' = None
        /\ synthesized_response' = None
        /\ current_response' = None
        /\ critique' = None
        /\ iterations' = None
        /\ calls' = <<>>
        /\ log_at_start' = Len(interaction_log)
        /\ UNCHANGED <<hvars, avars, cvars, interaction_log, returned, returned_snapshot>>

\* Step 1: self.retriever.search(query) answers
Search ==
    \E out \in RetrieverOutputs :
        /\ pc = "search"
        /\ retrieved_info' = out
        /\ calls' = Append(calls, Call("retriever", query, out))
        /\ interaction_log' = Append(interaction_log,
               [agent |-> "retriever", output |-> Preview(out)])
        /\ pc' = "synthesize"
        /\ UNCHANGED <<hvars, avars, cvars, query, max_iterations, synthesized_response,
                       current_response, critique, iterations, returned,
                       returned_snapshot, log_at_start, runs>>

\* Step 1: the text-generation call of search raises; run() has no handler
SearchSwallows ==
    /\ pc = "search"
    /\ retrieved_info' = <<>>
    /\ calls' = Append(calls, Raised("retriever", query))
    /\ interaction_log' = Append(interaction_log,
           [agent |-> "retriever", output |-> <<>>])
    /\ pc' = "synthesize"
    /\ UNCHANGED <<hvars, avars, cvars, query, max_iterations, synthesized_response,
                   current_response, critique, iterations, returned,
                   returned_snapshot, log_at_start, runs>>
SearchRaises ==
    /\ pc = "search"
    /\ calls' = Append(calls, Raised("retriever", query))
    /\ pc' = "raised"
    /\ UNCHANGED <<hvars, avars, cvars, query, max_iterations, retrieved_info,
                   synthesized_response, current_response, critique,
                   iterations, interaction_log, returned, returned_snapshot,
                   log_at_start, runs>>

\* Step 2: self.synthesizer.synthesize(query, retrieved_info) answers
Synthesize ==
    \E out \in SynthesizerOutputs :
        /\ pc = "synthesize"
        /\ synthesized_response' = out
        /\ calls' = Append(calls, Call("synthesizer", retrieved_info, out))
        /\ interaction_log' = Append(interaction_log,
               [agent |-> "synthesizer", output |-> Preview(out)])
        /\ pc' = "critique"
        /\ UNCHANGED <<hvars, avars, cvars, query, max_iterations, retrieved_info,
                       current_response, critique, iterations, returned,
                       returned_snapshot, log_at_start, runs>>

\* the end of run(): compile the result dict and return it
Return(first_response, latest_response, crit, its, log_now) ==
    LET r == CompileResult(query, first_response, latest_response, crit, its)
    IN  /\ returned' = Append(returned, r)
        /\ returned_snapshot' = Append(returned_snapshot,
                                       [r EXCEPT !.interaction_log = log_now])
        /\ pc' = "returned"

\* Step 3: self.critic.critique(query, synthesized_response) answers; the
\* loop test follows, and the return when it fails
Critique ==
    \E out \in CriticOutputs :
        LET crit == CriticAgent_critique(out)
        IN  /\ pc = "critique"
            /\ critique' = crit
            /\ calls' = Append(calls, CriticCall(synthesized_response, crit, out))
            /\ interaction_log' = Append(interaction_log,
                   [agent |-> "critic", output |-> crit])
            /\ current_response' = synthesized_response
            /\ iterations' = 1
            /\ IF WhileCond(crit, 1, max_iterations)
               THEN /\ pc' = "refine_synthesize"
                    /\ UNCHANGED <<returned, returned_snapshot>>
               ELSE Return(synthesized_response, synthesized_response, crit, 1,
                           Append(interaction_log,
                                  [agent |-> "critic", output |-> crit]))
            /\ UNCHANGED <<hvars, avars, cvars, query, max_iterations, retrieved_info,
                           synthesized_response, log_at_start, runs>>

\* loop body: self.synthesizer.synthesize(query, refinement_prompt) answers
RefineSynthesize ==
    \E out \in SynthesizerOutputs :
        LET refinement_prompt ==
                RefinementPrompt(synthesized_response, current_response, critique)
        IN  /\ pc = "refine_synthesize"
            /\ current_response' = out
            /\ calls' = Append(calls, Call("synthesizer", refinement_prompt, out))
            /\ pc' = "refine_critique"
            /\ UNCHANGED <<hvars, avars, cvars, query, max_iterations, retrieved_info,
                           synthesized_response, critique, iterations,
                           interaction_log, returned, returned_snapshot,
                           log_at_start, runs>>

\* loop body: self.critic.critique(query, current_response) answers; the
\* loop test follows, and the return when it fails
RefineCritique ==
    \E out \in CriticOutputs :
        LET target == CritiqueTarget(synthesized_response, current_response)
            crit == CriticAgent_critique(out)
        IN  /\ pc = "refine_critique"
            /\ critique' = crit
            /\ calls' = Append(calls, CriticCall(target, crit, out))
            /\ iterations' = iterations + 1
            /\ IF WhileCond(crit, iterations + 1, max_iterations)
               THEN /\ pc' = "refine_synthesize"
                    /\ UNCHANGED <<returned, returned_snapshot>>
               ELSE Return(synthesized_response, current_response, crit,
                           iterations + 1, interaction_log)
            /\ UNCHANGED <<hvars, avars, cvars, query, max_iterations, retrieved_info,
                           synthesized_response, current_response,
                           interaction_log, log_at_start, runs>>

\* a text-generation call after the retrieval step raises
LaterCallRaises ==
    /\ pc \in {"synthesize", "critique", "refine_synthesize", "refine_critique"}
    /\ calls' = Append(calls,
           Raised(IF pc \in {"synthesize", "refine_synthesize"}
                THEN "synthesizer" ELSE "critic",
                CASE pc = "synthesize" -> retrieved_info
                  [] pc = "critique" -> synthesized_response
                  [] pc = "refine_synthesize" ->
                       RefinementPrompt(synthesized_response, current_response,
                                        critique)
                  [] OTHER -> CritiqueTarget(synthesized_response,
                                             current_response)))
    /\ pc' = "raised"
    /\ UNCHANGED <<hvars, avars, cvars, query, max_iterations, retrieved_info,
                   synthesized_response, current_response, critique,
                   iterations, interaction_log, returned, returned_snapshot,
                   log_at_start, runs>>

WNext ==
    \/ Run
    \/ Search
    \/ SearchRaises
    \/ Synthesize
    \/ Critique
    \/ RefineSynthesize
    \/ RefineCritique
    \/ LaterCallRaises

CInit ==
    /\ crit_text = <<>>
    /\ crit_out = <<>>

Init == HistInit /\ WInit /\ AInit /\ CInit

Next == WNext

\* the orchestrator
Spec == Init /\ [][Next]_vars

\* one MessageHistory under its callers
HistSpec == Init /\ [][HistNext]_vars

\* the critic on every model output
CriticSpec == Init /\ [][CriticNext]_vars

\* one agent under the callers of process()
AgentSpec == Init /\ [][AgentNext]_vars

\* ==================================================================
\* Properties of run()
\* ==================================================================
CallsOf(agent) == {i \in DOMAIN calls : calls[i].agent = agent}
Last(seq) == seq[Len(seq)]
\* the result of the current run(), once it has returned
ThisResult == Last(returned)
\* the critic invocations of the current run, in order
CriticCalls == SelectSeq(calls, LAMBDA c : c.agent = "critic")
SynthCalls == SelectSeq(calls, LAMBDA c : c.agent = "synthesizer")

\* C1: with max_iterations >= 1, a run never makes more than max_iterations
\* Critic.critique calls, whatever scores the critic returns.
C1_AtMostMaxCritiques ==
    (pc # "idle" /\ max_iterations >= 1)
        => Cardinality(CallsOf("critic")) <= max_iterations

\* a run that hit the cap: every critique scored low and the loop still ended
C1_Witness ==
    /\ pc = "returned"
    /\ max_iterations = 2
    /\ Len(CriticCalls) = 2
    /\ CriticCalls[2].out.score < 7

\* C2: a critique scoring >= 7 is the last agent call of its run, and the run
\* returns on it; when the first critique scores >= 7 the result reports
\* 1 iteration whatever max_iterations is.
C2_StopsAtFirstGoodScore ==
    /\ \A i \in DOMAIN calls :
          (calls[i].agent = "critic" /\ calls[i].ok /\ calls[i].out.score >= 7)
              => (i = Len(calls) /\ pc = "returned")
    /\ (pc = "returned" /\ CriticCalls[1].out.score >= 7)
          => ThisResult.iterations = 1

\* the first critique scores 9 although two more iterations were allowed
C2_Witness ==
    /\ pc = "returned"
    /\ max_iterations = 3
    /\ CriticCalls[1].out.score = 9
    /\ ThisResult.iterations = 1

\* C3: a returned run reports as final_response the output of its last
\* synthesize call; with scores (low, high) and max_iterations = 2 it reports
\* 2 iterations and the second synthesis output.
C3_FinalIsLastSynthesis ==
    pc = "returned" =>
        /\ ThisResult.final_response = Last(SynthCalls).out
        /\ (max_iterations = 2 /\ Len(CriticCalls) >= 1
               /\ CriticCalls[1].out.score < 7)
             => /\ Len(CriticCalls) = 2
                /\ (CriticCalls[2].out.score >= 7
                      => /\ ThisResult.iterations = 2
                         /\ Len(SynthCalls) = 2
                         /\ ThisResult.final_response = SynthCalls[2].out)

\* scores (5, 9) with max_iterations = 2 and two different synthesis outputs
C3_Witness ==
    /\ pc = "returned"
    /\ max_iterations = 2
    /\ Len(CriticCalls) = 2
    /\ CriticCalls[1].out.score = 5
    /\ CriticCalls[2].out.score = 9
    /\ SynthCalls[1].out # SynthCalls[2].out
    /\ ThisResult.final_response = SynthCalls[2].out

\* C4: when the retrieval step's generation call raises, the run makes no
\* synthesize or critique call, ends raised to its caller and returns no
\* result dict.
C4_RetrievalFailureAborts ==
    (Len(calls) >= 1 /\ ~calls[1].ok) =>
        /\ calls[1].agent = "retriever"
        /\ Len(calls) = 1
        /\ pc = "raised"
        /\ Len(returned) < runs

\* the retrieval step of a second run raised
C4_Witness ==
    /\ pc = "raised"
    /\ Len(calls) = 1
    /\ calls[1].agent = "retriever"
    /\ ~calls[1].ok
    /\ runs = 2

\* text begins with prefix / ends with suffix
StartsWith(text, prefix) ==
    Len(text) >= Len(prefix) /\ SubSeq(text, 1, Len(prefix)) = prefix
EndsWith(text, suffix) ==
    Len(text) >= Len(suffix)
        /\ SubSeq(text, Len(text) - Len(suffix) + 1, Len(text)) = suffix

\* C5: every refinement synthesis call (each synthesize call after the
\* first) receives as retrieved_info the most recent synthesis output, the
\* one the latest critique evaluated, followed by that critique's text.
C5_RefinementGetsPriorCandidate ==
    \A i \in DOMAIN calls :
        (calls[i].agent = "synthesizer" /\ i > 2) =>
            /\ calls[i - 1].agent = "critic"
            /\ calls[i - 2].agent = "synthesizer"
            /\ StartsWith(calls[i].arg, calls[i - 2].out)
            /\ EndsWith(calls[i].arg, calls[i - 1].out.critique)
            /\ calls[i - 1].arg = calls[i - 2].out

\* C6: a returned run has added to the interaction log exactly one entry per
\* agent invocation it made, in invocation order.
C6_OneLogEntryPerInvocation ==
    pc = "returned" =>
        LET gained == SubSeq(interaction_log, log_at_start + 1,
                             Len(interaction_log))
        IN  /\ Len(gained) = Len(calls)
            /\ \A i \in DOMAIN calls : gained[i].agent = calls[i].agent

\* C7: every result dict run() has returned reads, field for field, as it
\* read when it was returned, whatever runs follow on the orchestrator.
C7_ResultImmutable ==
    \A i \in DOMAIN returned :
        ResultView(returned[i]) = returned_snapshot[i]

\* ==================================================================
\* Properties of MessageHistory
\* ==================================================================
\* the newline-terminated lines of text, in order
SplitLines(text) ==
    LET nl == {i \in 1..Len(text) : text[i] = "\n"}
        nth(j) == CHOOSE p \in nl : Cardinality({q \in nl : q <= p}) = j
        start(j) == IF j = 1 THEN 1 ELSE nth(j - 1) + 1
    IN  [j \in 1..Cardinality(nl) |-> SubSeq(text, start(j), nth(j) - 1)]

\* the lines of a context that render a message
RenderedLines(text) ==
    SelectSeq(SplitLines(text), LAMBDA l : l # <<>> /\ l[1] = "[")

\* "[sender -> recipient]: content"
ExpectedLine(m) ==
    <<"[">> \o m.sender \o <<" ", "-", ">", " ">> \o m.recipient
            \o <<"]", ":", " ">> \o m.content

IsPrefix(s, t) == Len(s) <= Len(t) /\ SubSeq(t, 1, Len(s)) = s

\* C8: get_conversation_context renders exactly the last min(10, length)
\* messages, each as "[sender -> recipient]: content", in append order, and
\* no older message; a1 -> a2 "Query 1" renders as "[a1 -> a2]: Query 1".
C8_ContextIsLastTen ==
    hist_op = "get_conversation_context" =>
        LET n == Len(messages)
            k == IF n < 10 THEN n ELSE 10
            lines == RenderedLines(hist_ret)
        IN  /\ Len(lines) = k
            /\ \A i \in 1..k : lines[i] = ExpectedLine(messages[n - k + i])
            /\ (n > 0 /\ messages[n] = Msg1) =>
                 lines[k] = <<"[","a","1"," ","-",">"," ","a","2","]",":"," ",
                              "Q","u","e","r","y"," ","1">>

\* a context read of an 11-message history whose oldest message differs
\* from the oldest one rendered
C8_Witness ==
    /\ hist_op = "get_conversation_context"
    /\ Len(messages) = 11
    /\ messages[1] # messages[2]
    /\ Len(RenderedLines(hist_ret)) = 10

\* C9: two get_conversation_context calls with no add_message (or clear)
\* between them return the same text, and a call leaves the stored messages
\* as they were.
C9_ContextReadIdempotent ==
    /\ [](Len(seen_context) = 2 => seen_context[1] = seen_context[2])
    /\ [][hist_op' = "get_conversation_context" => messages' = messages]_vars

\* a second read of a history longer than the window
C9_Witness ==
    /\ hist_op = "get_conversation_context"
    /\ Len(seen_context) = 2
    /\ Len(messages) = 11

\* C10 as stated: no public operation, clear included, ever removes or
\* reorders an appended message.
C10_AppendOnly ==
    [][IsPrefix(messages, messages')]_vars

\* C10 amended: add_message, get_recent_messages and get_conversation_context
\* leave the earlier sequence a prefix of the later one; clear empties it.
C10_AppendOnlyExceptClear ==
    [][/\ hist_op' # "clear" => IsPrefix(messages, messages')
       /\ hist_op' = "clear" => messages' = <<>>]_vars

\* an append to a history that already holds two messages
C10_Witness ==
    /\ hist_op = "add_message"
    /\ Len(messages) = 3
    /\ messages[1] # messages[3]

\* ==================================================================
\* Properties of BaseAgent.process
\* ==================================================================
\* C11: a process(incoming) call that returns leaves the history it found
\* followed by exactly incoming and then the response, and the response has
\* sender = the agent's id, recipient = incoming.sender, type response and
\* the incoming message's context map.
C11_ProcessAppendsTwo ==
    proc_llm = "answered" =>
        /\ proc_pc = "returned"
        /\ Len(proc_ret) = 1
        /\ memory = mem_before \o <<proc_in, proc_ret[1]>>
        /\ proc_ret[1].sender = AgentId
        /\ proc_ret[1].recipient = proc_in.sender
        /\ proc_ret[1].message_type = "response"
        /\ proc_ret[1].context = proc_in.context

\* a returned call on a non-empty history whose incoming message carries a
\* non-empty context and was not sent by the agent
C11_Witness ==
    /\ proc_pc = "returned"
    /\ Len(mem_before) >= 2
    /\ proc_in.context # {}
    /\ proc_in.sender # AgentId
    /\ Len(memory) = Len(mem_before) + 2

\* C12: when the client fails during process(incoming), the call ends raised
\* to its caller, returns no message, and appends nothing but the incoming
\* message: no response is added to the history.
C12_FailureFabricatesNothing ==
    proc_llm = "failed" =>
        /\ proc_pc = "raised"
        /\ proc_ret = <<>>
        /\ memory = mem_before \o <<proc_in>>

\* a failed call on a history that holds an earlier exchange
C12_Witness ==
    /\ proc_llm = "failed"
    /\ proc_pc = "raised"
    /\ Len(mem_before) >= 2
    /\ Len(memory) = Len(mem_before) + 1

\* ==================================================================
\* More properties of run()
\* ==================================================================
\* the Refining transitions the current run has taken: one per synthesize
\* call after the first
Refinements == Len(SynthCalls) - 1

\* C13: iterations is 1 after the initial synthesis and critique and grows
\* by 1 per Refining transition, so a returned run reports the number of its
\* critique calls, which is the number of its synthesize calls; after a
\* critique the Refining transition is taken exactly when the score is
\* below 7 and iterations < max_iterations.
C13_IterationsCountsRounds ==
    /\ pc \in {"refine_synthesize", "returned"} =>
          /\ iterations = 1 + Refinements
          /\ iterations = Len(CriticCalls)
          /\ iterations = Len(SynthCalls)
          /\ (pc = "refine_synthesize")
                <=> (critique.score < 7 /\ iterations < max_iterations)
    /\ pc = "refine_critique" =>
          /\ iterations = Refinements
          /\ iterations = Len(CriticCalls)
    /\ pc = "returned" => ThisResult.iterations = iterations

\* a run that refined twice and returned on the third critique
C13_Witness ==
    /\ pc = "returned"
    /\ ThisResult.iterations = 3
    /\ Len(CriticCalls) = 3
    /\ Len(SynthCalls) = 3

\* C14: every critique call evaluates the most recent synthesis output, and
\* a returned run reports the score and the text of its last CritiqueResult,
\* which evaluated the response reported as final_response; the text is the
\* critic model's answer as it came.
C14_ResultCarriesLastCritique ==
    /\ \A i \in CallsOf("critic") :
          /\ i > 1
          /\ calls[i - 1].agent = "synthesizer"
          /\ calls[i].arg = calls[i - 1].out
    /\ pc = "returned" =>
          LET c == Last(CriticCalls)
          IN  /\ ThisResult.quality_score = c.out.score
              /\ ThisResult.critique = c.out.critique
              /\ ThisResult.critique = c.raw
              /\ c.arg = ThisResult.final_response

\* a run whose second critique evaluated a second, different synthesis
C14_Witness ==
    /\ pc = "returned"
    /\ Len(CriticCalls) = 2
    /\ SynthCalls[1].out # SynthCalls[2].out
    /\ CriticCalls[1].raw # CriticCalls[2].raw
    /\ CriticCalls[2].arg = SynthCalls[2].out

\* ==================================================================
\* Properties of CriticAgent.critique
\* ==================================================================
\* tok occurs in the first 50 characters of text
InFirst50(tok, text) ==
    \E i \in 1..50 :
        /\ i + Len(tok) - 1 <= 50
        /\ i + Len(tok) - 1 <= Len(text)
        /\ \A j \in 1..Len(tok) : text[i + j - 1] = tok[j]

\* C15: for every model output critique returns an integer score in 1..10;
\* it returns 7 when none of "10", "9", "8", "6", "5" occurs in the first
\* 50 characters; and it returns a score below 7 only when "6" or "5"
\* occurs there and "10", "9" and "8" do not.
C15_ScoreContract ==
    crit_out # <<>> =>
        LET score == crit_out[1].score
            has(tok) == InFirst50(tok, crit_text)
        IN  /\ score \in 1..10
            /\ (~has(<<"1","0">>) /\ ~has(<<"9">>) /\ ~has(<<"8">>)
                  /\ ~has(<<"6">>) /\ ~has(<<"5">>)) => score = 7
            /\ score < 7 =>
                  /\ has(<<"6">>) \/ has(<<"5">>)
                  /\ ~has(<<"1","0">>) /\ ~has(<<"9">>) /\ ~has(<<"8">>)

\* an output whose only digit lies just past the window: the default score
C15_Witness ==
    /\ crit_out # <<>>
    /\ Len(crit_text) = 51
    /\ crit_text[49] = "x"
    /\ crit_text[50] = "x"
    /\ crit_text[51] = "5"
    /\ crit_out[1].score = 7

\* ==================================================================
\* Properties of MessageHistory.get_recent_messages
\* ==================================================================
\* C16: for every history and every n >= 0, get_recent_messages(n) returns
\* exactly the last min(n, length) messages in append order; n = 0 yields
\* the empty list.
C16_RecentIsLastN ==
    hist_op = "get_recent_messages" =>
        LET n == hist_arg
            len == Len(messages)
            k == IF n < len THEN n ELSE len
        IN  /\ hist_ret = [i \in 1..k |-> messages[len - k + i]]
            /\ n = 0 => hist_ret = <<>>

====
